---------------------------- MODULE Spec2Model ----------------------------
(***************************************************************************)
(* A model of dfind (src/tools/dfind/dfind.py): the indexer that walks the *)
(* drives into an SQLite store, and the search / top commands that read it.*)
(*                                                                         *)
(* Text is modelled as a sequence of one-character strings, so that upper- *)
(* casing, slicing, path splitting and LIKE matching are computed the way  *)
(* the code (and SQLite) computes them.                                    *)
(***************************************************************************)
EXTENDS Integers, Sequences, FiniteSets, TLC

VARIABLES
    argv,                \* sys.argv[1:] of this invocation, as a record
    IGNORED_DRIVES,      \* configuration (dfind.py:92)
    WHITELISTED_DRIVES,  \* configuration (dfind.py:110)
    CUSTOM_PLACES,       \* configuration (dfind.py:100)
    logicalDrives,       \* what win32api.GetLogicalDriveStrings() reports
    faults,              \* the OS errors of this run: a set of <<operation, path>>
    dbFile,              \* DB_FILE on disk: NoFile, or the committed tables
    conn,                \* the open connection: its uncommitted rows, or Closed
    pc,                  \* where the main thread is
    driveRoots,          \* indexDrives' driveRoots
    thrList,             \* indexDrives' thrList: one record per worker thread
    folderSizes,         \* indexDrives' folderSizes, in insertion order
    totalSize,           \* indexDrives' totalSize
    out,                 \* what was printed, one item per line
    exitCode,            \* the process's exit status, or Running
    findCalls            \* the calls of find() this process made

vars == <<argv, IGNORED_DRIVES, WHITELISTED_DRIVES, CUSTOM_PLACES, logicalDrives,
          faults, dbFile, conn, pc, driveRoots, thrList, folderSizes, totalSize,
          out, exitCode, findCalls>>

-----------------------------------------------------------------------------
(* Text *)

Lowers == <<"a","b","c","d","e","f","g","h","i","j","k","l","m",
            "n","o","p","q","r","s","t","u","v","w","x","y","z">>
Uppers == <<"A","B","C","D","E","F","G","H","I","J","K","L","M",
            "N","O","P","Q","R","S","T","U","V","W","X","Y","Z">>

\* str.upper() on one character
UpperChar(ch) ==
    IF \E i \in 1..Len(Lowers) : Lowers[i] = ch
    THEN Uppers[CHOOSE i \in 1..Len(Lowers) : Lowers[i] = ch]
    ELSE ch

\* str.upper()
Upper(s) == [i \in 1..Len(s) |-> UpperChar(s[i])]

\* s[0:n]
Slice0(s, n) == SubSeq(s, 1, IF Len(s) < n THEN Len(s) ELSE n)

Range(s) == {s[i] : i \in 1..Len(s)}

StartsWith(s, p) == Len(s) >= Len(p) /\ SubSeq(s, 1, Len(p)) = p

\* the sequences over S of length at most n
SeqsUpTo(S, n) == UNION {[1..k -> S] : k \in 0..n}

\* the orders in which a finite set can be listed
Orderings(S) == {q \in [1..Cardinality(S) -> S] : Range(q) = S}

Reverse(s) == [i \in 1..Len(s) |-> s[Len(s) + 1 - i]]

-----------------------------------------------------------------------------
(* Root resolution: sanitizeDriveList, getDriveRoots, indexDrives 207-213 *)

\* A configuration value is a bare string, as in IGNORED_DRIVES = ('C:'),
\* or a tuple of strings.
StrVal(s) == [isStr |-> TRUE, val |-> s]
ListVal(l) == [isStr |-> FALSE, val |-> l]

sanitizeDriveList(l) ==
    LET lst == IF l.isStr THEN <<l.val>> ELSE l.val
    IN  [i \in 1..Len(lst) |-> Slice0(Upper(lst[i]), 2)]

\* drives.split('\000')[:-1], sanitized, minus the ignored ones, cut to the
\* whitelist when there is one: the set the list is then made from.
DriveSet(ignoredRoots, whitelistedDrives) ==
    LET drives == Range(sanitizeDriveList(ListVal(logicalDrives))) \ Range(ignoredRoots)
    IN  IF Len(whitelistedDrives) > 0
        THEN drives \cap Range(whitelistedDrives)
        ELSE drives

\* for c in customPlaces: drives.insert(0, c)
InsertCustomPlaces_Append(drives, customPlaces) == drives \o customPlaces

InsertCustomPlaces(drives, customPlaces) == Reverse(customPlaces) \o drives

\* The lists getDriveRoots can return: list(set) has no defined order.
getDriveRoots(ignoredRoots, customPlaces, whitelistedDrives) ==
    {InsertCustomPlaces(d, customPlaces) :
        d \in Orderings(DriveSet(ignoredRoots, whitelistedDrives))}

-----------------------------------------------------------------------------
(* Paths: pathlib's Windows flavour, on text *)

Sep == "\\"

\* s.split(sep), empty pieces dropped
RECURSIVE SplitAt(_, _, _)
SplitAt(s, sep, cur) ==
    IF s = <<>> THEN (IF cur = <<>> THEN <<>> ELSE <<cur>>)
    ELSE IF Head(s) = sep
         THEN (IF cur = <<>> THEN <<>> ELSE <<cur>>) \o SplitAt(Tail(s), sep, <<>>)
         ELSE SplitAt(Tail(s), sep, Append(cur, Head(s)))

RECURSIVE JoinWith(_, _)
JoinWith(parts, sep) ==
    IF parts = <<>> THEN <<>>
    ELSE IF Len(parts) = 1 THEN parts[1]
    ELSE parts[1] \o <<sep>> \o JoinWith(Tail(parts), sep)

\* pathlib's parse of a path string: the anchor (drive and root) and the
\* components after it. A UNC anchor is \\server\share\ .
ParsePath(s) ==
    IF StartsWith(s, <<Sep, Sep>>) THEN
        LET c == SplitAt(s, Sep, <<>>)
        IN  IF Len(c) >= 2
            THEN [anchor |-> <<Sep, Sep>> \o c[1] \o <<Sep>> \o c[2] \o <<Sep>>,
                  tail   |-> SubSeq(c, 3, Len(c))]
            ELSE [anchor |-> <<Sep>>, tail |-> c]
    ELSE IF Len(s) >= 2 /\ s[2] = ":" THEN
        LET rooted == Len(s) >= 3 /\ s[3] = Sep
        IN  [anchor |-> IF rooted THEN SubSeq(s, 1, 3) ELSE SubSeq(s, 1, 2),
             tail   |-> SplitAt(SubSeq(s, 3, Len(s)), Sep, <<>>)]
    ELSE IF StartsWith(s, <<Sep>>) THEN
        [anchor |-> <<Sep>>, tail |-> SplitAt(s, Sep, <<>>)]
    ELSE [anchor |-> <<>>, tail |-> SplitAt(s, Sep, <<>>)]

\* str(path)
PathStr(p) == p.anchor \o JoinWith(p.tail, Sep)

\* path.parts
Parts(p) == IF p.anchor = <<>> THEN p.tail ELSE <<p.anchor>> \o p.tail

\* path.parent
Parent(p) ==
    IF p.tail = <<>> THEN p
    ELSE [anchor |-> p.anchor, tail |-> SubSeq(p.tail, 1, Len(p.tail) - 1)]

\* path.name
Name(p) == IF p.tail = <<>> THEN <<>> ELSE p.tail[Len(p.tail)]

\* path.root
Root(p) == IF p.anchor # <<>> /\ p.anchor[Len(p.anchor)] = Sep THEN <<Sep>> ELSE <<>>

\* os.path.join(path, name), as os.scandir builds entry.path
JoinPath(path, name) ==
    IF path # <<>> /\ path[Len(path)] \in {Sep, ":"}
    THEN path \o name
    ELSE path \o <<Sep>> \o name

-----------------------------------------------------------------------------
(* The file system that is scanned *)

D_ == <<"D", ":", Sep>>
E_ == <<"E", ":", Sep>>
F_ == <<"F", ":", Sep>>
NetShare == <<Sep, Sep, "n", Sep, "s">>
RECYCLE_BIN == <<"$","R","E","C","Y","C","L","E",".","B","I","N">>
SYSTEM_VOLUME_INFORMATION ==
    <<"S","y","s","t","e","m"," ","V","o","l","u","m","e"," ",
      "I","n","f","o","r","m","a","t","i","o","n">>

Dir(path) == [path |-> path, kind |-> "dir", size |-> 0, target |-> <<>>]
File(path, size) == [path |-> path, kind |-> "file", size |-> size, target |-> <<>>]
Link(path, target) == [path |-> path, kind |-> "link", size |-> 0, target |-> target]

\* Every directory entry, by absolute path, in the order os.scandir lists them.
Tree == <<
    Dir(D_ \o <<"A">>),
    File(D_ \o <<"A", Sep, "a">>, 10),
    File(D_ \o <<"A", Sep, "b">>, 20),
    Dir(D_ \o <<"B">>),
    File(D_ \o <<"B", Sep, "c">>, 5),
    Link(D_ \o <<"B", Sep, "l">>, D_ \o <<"A", Sep, "a">>),
    Dir(D_ \o RECYCLE_BIN),
    File(D_ \o RECYCLE_BIN \o <<Sep, "r">>, 1),
    File(E_ \o <<"e">>, 7),
    File(NetShare \o <<Sep, "f">>, 3),
    File(F_ \o <<"f","o","o",".","t","x","t">>, 7),
    Dir(F_ \o <<"x">>),
    File(F_ \o <<"x", Sep, "f","o","o">>, 0),
    File(F_ \o <<"x", Sep, "F","o","b">>, 7)
>>

Nodes == Range(Tree)

IsNode(abs) == \E n \in Nodes : n.path = abs
NodeAt(abs) == CHOOSE n \in Nodes : n.path = abs

\* The absolute form of a path: a drive-relative path ("D:A") is taken from
\* the drive's current directory, which is the drive's root here.
Absolute(p) ==
    IF Len(p.anchor) = 2 /\ p.anchor[2] = ":"
    THEN [anchor |-> p.anchor \o <<Sep>>, tail |-> p.tail]
    ELSE p

\* path.resolve(): absolute, and a symbolic link replaced by what it points to
Resolve(p) ==
    LET a == Absolute(p)
    IN  IF IsNode(PathStr(a)) /\ NodeAt(PathStr(a)).kind = "link"
        THEN ParsePath(NodeAt(PathStr(a)).target)
        ELSE a

\* path.stat().st_size: stat follows a symbolic link
StatSize(p) ==
    LET r == PathStr(Resolve(p))
    IN  IF IsNode(r) THEN NodeAt(r).size ELSE 0

\* The entries os.scandir(path) lists, as <<entry.name, entry.path>> with the
\* entry's node.
ScanDir(path) ==
    LET abs  == Absolute(ParsePath(path))
        kids == SelectSeq(Tree, LAMBDA n : Parent(ParsePath(n.path)) = abs)
    IN  [i \in 1..Len(kids) |->
            [name |-> Name(ParsePath(kids[i].path)),
             path |-> JoinPath(path, Name(ParsePath(kids[i].path))),
             node |-> kids[i]]]

\* An OS error is raised by operation op on the entry with this path
Raises(op, path) == <<op, PathStr(Absolute(ParsePath(path)))>> \in faults

-----------------------------------------------------------------------------
(* The store: DB_FILE and the connection that writes it *)

\* DB_FILE does not exist
NoFile == [exists |-> FALSE]
\* no connection is open
Closed == [open |-> FALSE]
\* The exit status is <<n>> once the process has ended with status n
Running == <<>>
Exited(n) == <<n>>

\* The three tables of the schema (dfind.py:223-225), empty
EmptyTables == [files |-> <<>>, folders |-> <<>>, info |-> <<>>]

\* The generation a row belongs to: the store an earlier run left, or the
\* rows this run writes. It is not a column; it tells the runs apart.
OldGen == "earlier run"
ThisGen == "this run"

\* What a SELECT through the connection sees: committed and pending rows
Visible(table) == dbFile[table] \o conn[table]

\* db.commit()
Committed == [t \in {"files", "folders", "info"} |-> dbFile[t] \o conn[t]]

-----------------------------------------------------------------------------
(* Path Walker and Record Builder: scantree, indexSingleDrive *)

\* scantree(path): the paths it yields, in order. The try encloses the whole
\* for loop, so an error raised inside it ends the listing of that directory.
RECURSIVE scantree(_)
RECURSIVE ScanEntries(_)
ScanEntries(es) ==
    IF es = <<>> THEN <<>>
    ELSE LET entry == Head(es)
         IN  IF Raises("is_dir", entry.path) THEN <<>>
             ELSE IF entry.node.kind = "dir"
                  THEN scantree(entry.path) \o ScanEntries(Tail(es))
             ELSE IF Raises("Path", entry.path) THEN <<>>
             ELSE <<entry.path>> \o ScanEntries(Tail(es))

scantree(path) ==
    IF Raises("scandir", path) THEN <<>> ELSE ScanEntries(ScanDir(path))

Skip == [skipped |-> TRUE]

\* The body of indexSingleDrive's loop for one yielded entry: the row it
\* inserts, or Skip.
FileRow(entryPath) ==
    LET entry == ParsePath(entryPath)
    IN  IF Len(Parts(entry)) >= 2
           /\ Parts(entry)[2] \in {RECYCLE_BIN, SYSTEM_VOLUME_INFORMATION}
        THEN Skip
        ELSE IF Raises("stat", entryPath) THEN Skip
        ELSE [gen      |-> ThisGen,
              drive    |-> Root(entry),
              fullpath |-> PathStr(Resolve(entry)),
              name     |-> Name(entry),
              size     |-> StatSize(entry)]

\* indexSingleDrive(drive, sqlDb), run to its end: the rows it inserts
RECURSIVE RowsOf(_)
RowsOf(entries) ==
    IF entries = <<>> THEN <<>>
    ELSE (IF FileRow(Head(entries)) = Skip THEN <<>> ELSE <<FileRow(Head(entries))>>)
         \o RowsOf(Tail(entries))

indexSingleDrive(drive) == RowsOf(scantree(drive))

-----------------------------------------------------------------------------
(* Aggregation: indexDrives 267-304 *)

\* Two path keys are the same dictionary key: Windows paths compare
\* without regard to letter case.
SameKey(p, q) == Upper(PathStr(p)) = Upper(PathStr(q))

\* folderSizes[key] = folderSizes.get(key) + size, keeping insertion order
AddTo(fs, key, size) ==
    IF \E i \in 1..Len(fs) : SameKey(fs[i].folder, key)
    THEN [i \in 1..Len(fs) |->
            IF SameKey(fs[i].folder, key)
            THEN [fs[i] EXCEPT !.size = @ + size] ELSE fs[i]]
    ELSE Append(fs, [folder |-> key, size |-> size])

\* The read-back loop over the rows (273-288). Its result: the folder sizes,
\* the total, and the path at which it gave up, if it did.
RECURSIVE ReadBack(_, _, _)
ReadBack(rows, fs, total) ==
    IF rows = <<>> THEN [folderSizes |-> fs, totalSize |-> total, failed |-> <<>>]
    ELSE LET row == Head(rows)
         IN  IF Raises("Path_EINVAL", row.fullpath)
             THEN ReadBack(Tail(rows), fs, total)
             ELSE IF Raises("Path_other", row.fullpath)
             THEN [folderSizes |-> fs, totalSize |-> total, failed |-> row.fullpath]
             ELSE ReadBack(Tail(rows),
                           AddTo(fs, Parent(ParsePath(row.fullpath)), row.size),
                           total + row.size)

\* The row inserted for one folder (292-302)
FolderRow(folder, size) ==
    LET p == folder
    IN  [gen      |-> ThisGen,
         fullpath |-> PathStr(Resolve(p)),
         name     |-> IF Name(p) # <<>> THEN Name(p) ELSE PathStr(Resolve(p)),
         size     |-> size]

-----------------------------------------------------------------------------
(* Query Engine: find *)

\* search.replace('*', '%')
ReplaceStar_AlsoQuestionMark(search) ==
    [i \in 1..Len(search) |->
        IF search[i] = "*" THEN "%" ELSE IF search[i] = "?" THEN "_" ELSE search[i]]

ReplaceStar(search) ==
    [i \in 1..Len(search) |-> IF search[i] = "*" THEN "%" ELSE search[i]]

\* SQLite's comparison of two characters under LIKE
SameChar(a, b, case_sensitive) ==
    IF case_sensitive THEN a = b ELSE UpperChar(a) = UpperChar(b)

\* SQLite's  text LIKE pattern : % is any run of characters, _ is any one
\* character, there is no escape character.
RECURSIVE Like(_, _, _)
Like(pattern, text, case_sensitive) ==
    IF pattern = <<>> THEN text = <<>>
    ELSE IF Head(pattern) = "%"
         THEN \E k \in 0..Len(text) :
                Like(Tail(pattern), SubSeq(text, k + 1, Len(text)), case_sensitive)
    ELSE IF text = <<>> THEN FALSE
    ELSE IF Head(pattern) = "_"
         THEN Like(Tail(pattern), Tail(text), case_sensitive)
    ELSE SameChar(Head(pattern), Head(text), case_sensitive)
         /\ Like(Tail(pattern), Tail(text), case_sensitive)

\* The WHERE clause of find's SELECT (357-362), for one row
Matches_LikeAlwaysInsensitive(row, search, noWildcard, case_sensitive) ==
    IF noWildcard
    THEN row.name = search \/ row.fullpath = search
    ELSE Like(search, row.name, FALSE) \/ Like(search, row.fullpath, FALSE)

Matches(row, search, noWildcard, case_sensitive) ==
    IF noWildcard
    THEN row.name = search \/ row.fullpath = search
    ELSE Like(search, row.name, case_sensitive)
         \/ Like(search, row.fullpath, case_sensitive)

\* find(search, noWildcard, case_sensitive) on an existing store: the
\* DFindResultList it returns
find(search, noWildcard, case_sensitive) ==
    LET s     == ReplaceStar(search)
        rlist == SelectSeq(dbFile.files,
                           LAMBDA row : Matches(row, s, noWildcard, case_sensitive))
    IN  [List           |-> rlist,
         Count          |-> Len(rlist),
         CaseSensitive  |-> case_sensitive,
         Wildcard       |-> ~noWildcard,
         OriginalSearch |-> s]

-----------------------------------------------------------------------------
(* Aggregation Reporter: top, sizeToIECString *)

IEC_PREFIXES == <<"", "Ki", "Mi", "Gi", "Ti", "Pi", "Ei", "Zi", "Yi">>

\* int(math.log(num, 1024)) for num >= 1
RECURSIVE Magnitude(_)
Magnitude(num) == IF num < 1024 THEN 0 ELSE 1 + Magnitude(num \div 1024)

RECURSIVE Pow1024(_)
Pow1024(k) == IF k = 0 THEN 1 ELSE 1024 * Pow1024(k - 1)

ValueError == [raised |-> "ValueError"]

\* sizeToIECString(num): the value in tenths (rounded half up) and the prefix;
\* math.log(0, 1024) raises ValueError.
sizeToIECString(num) ==
    IF num <= 0 THEN ValueError
    ELSE LET magnitude == Magnitude(num)
             tenths    == (num * 20 + Pow1024(magnitude)) \div (2 * Pow1024(magnitude))
         IN  [tenths |-> tenths,
              prefix |-> IEC_PREFIXES[(IF magnitude > 7 THEN 7 ELSE magnitude) + 1]]

\* The results SELECT * FROM <top_type> ORDER BY size [DESC] LIMIT top_max can
\* give: rows of equal size come in no defined order.
TopRows(top_type, top_max, ascending) ==
    LET rows == dbFile[top_type]
        n    == Len(rows)
        k    == IF top_max < n THEN top_max ELSE n
    IN  {[i \in 1..k |-> rows[perm[i]]] :
            perm \in {q \in [1..n -> 1..n] :
                        /\ \A i, j \in 1..n : i # j => q[i] # q[j]
                        /\ \A i \in 1..(n - 1) :
                              IF ascending
                              THEN rows[q[i]].size <= rows[q[i + 1]].size
                              ELSE rows[q[i]].size >= rows[q[i + 1]].size}}

\* The lines top prints for these rows, and whether it ran to its end: the
\* loop stops at the first row whose size cannot be formatted.
RECURSIVE TopLines(_, _)
TopLines(rows, i) ==
    IF i > Len(rows) THEN [lines |-> <<>>, ok |-> TRUE]
    ELSE IF sizeToIECString(rows[i].size) = ValueError
         THEN [lines |-> <<>>, ok |-> FALSE]
    ELSE LET rest == TopLines(rows, i + 1)
         IN  [lines |-> <<[k |-> "top", n |-> i,
                           size |-> sizeToIECString(rows[i].size),
                           path |-> rows[i].fullpath]>> \o rest.lines,
              ok    |-> rest.ok]

-----------------------------------------------------------------------------
(* What the process prints and how it ends *)

Msg(m) == [k |-> "msg", v |-> m]
PathLine(row) == [k |-> "path", v |-> row.fullpath]
UiLine(row) == [k |-> "ui", v |-> row.fullpath]
PathLines(rows) == [i \in 1..Len(rows) |-> PathLine(rows[i])]
UiLines(rows) == [i \in 1..Len(rows) |-> UiLine(rows[i])]

\* str(n) for n >= 0
RECURSIVE DecimalText(_)
DecimalText(n) ==
    LET digit == <<"0","1","2","3","4","5","6","7","8","9">>[(n % 10) + 1]
    IN  IF n < 10 THEN <<digit>> ELSE Append(DecimalText(n \div 10), digit)

\* The process ends with this status; an open connection is closed without
\* a commit, which discards its pending rows.
Exit(status) ==
    /\ exitCode' = Exited(status)
    /\ pc' = "exited"
    /\ conn' = Closed

-----------------------------------------------------------------------------
(* The command line: __main__ 472-546 *)

\* args.which: the parser's default is 'main_p' (489) and only the top
\* sub-parser sets another (510).
Which(a) == IF a.form = "top" THEN "top_p" ELSE "main_p"

\* One call of find: its arguments, and <<what it returned>>, or <<>> when
\* sqlite3.connect raised because there is no store file to open read-only
FindCall(search, noWildcard, case_sensitive) ==
    [search |-> search, noWildcard |-> noWildcard, case_sensitive |-> case_sensitive,
     returned |-> IF dbFile = NoFile THEN <<>>
                  ELSE <<find(search, noWildcard, case_sensitive)>>]

\* 520-522: dfind <free text>
BareBranch ==
    /\ findCalls' = <<FindCall(argv.text, FALSE, FALSE)>>
    /\ IF dbFile = NoFile
       THEN \* sqlite3.connect(...mode=ro) raises OperationalError
            out' = out \o <<Msg("Traceback")>> /\ Exit(1)
       ELSE LET r == find(argv.text, FALSE, FALSE)
            IN  IF Len(r.List) > 0
                THEN out' = out \o PathLines(r.List) /\ Exit(0)
                ELSE \* printResutls reads args, which is not assigned yet
                     out' = out \o <<Msg("Traceback")>> /\ Exit(1)

\* 527-529: --index; indexDrives runs next
IndexBranch ==
    /\ pc' = "resolve"
    /\ UNCHANGED <<conn, out, exitCode, findCalls>>

\* 531-534: no store file
NoIndexBranch ==
    /\ out' = out \o <<Msg("No index DB found")>>
    /\ Exit(1)
    /\ UNCHANGED findCalls

\* 536-543: the search branch
SearchBranch ==
    IF argv.text = <<>>
    THEN /\ out' = out \o <<Msg("help")>>
         /\ Exit(1)
         /\ UNCHANGED findCalls
    ELSE LET r == find(argv.text, argv.noWildCard, argv.caseSensitive)
         IN  /\ findCalls' = Append(findCalls,
                    FindCall(argv.text, argv.noWildCard, argv.caseSensitive))
             /\ IF argv.withUi
                THEN IF r.Count <= 0
                     THEN out' = out \o <<Msg("No results.")>> /\ Exit(0)
                     ELSE out' = out \o UiLines(r.List) /\ Exit(0)
                ELSE IF Len(r.List) > 0
                     THEN out' = out \o PathLines(r.List) /\ Exit(0)
                     ELSE out' = out \o <<Msg("Found nothing")>> /\ Exit(1)

\* 545-546: the top branch
TopBranch ==
    /\ \E rows \in TopRows(argv.type, argv.max, argv.asc) :
          LET t == TopLines(rows, 1)
          IN  /\ out' = out \o <<Msg("Top")>> \o t.lines
                          \o (IF t.ok THEN <<>> ELSE <<Msg("Traceback")>>)
              /\ Exit(IF t.ok THEN 0 ELSE 1)
    /\ UNCHANGED findCalls

\* neither branch is taken: the script runs off its end
NoBranch ==
    /\ Exit(0)
    /\ UNCHANGED <<out, findCalls>>

Main ==
    /\ pc = "main"
    /\ IF argv.form = "bare" THEN BareBranch
       ELSE IF argv.index THEN IndexBranch
       ELSE IF dbFile = NoFile THEN NoIndexBranch
       ELSE IF Which(argv) = "search" THEN SearchBranch
       ELSE IF Which(argv) = "top_p" THEN TopBranch
       ELSE NoBranch
    /\ UNCHANGED <<argv, IGNORED_DRIVES, WHITELISTED_DRIVES, CUSTOM_PLACES,
                   logicalDrives, faults, dbFile, driveRoots, thrList,
                   folderSizes, totalSize>>

-----------------------------------------------------------------------------
(* Indexing Coordinator: indexDrives *)

\* 207-213: the roots, or the run ends for want of any
ResolveRoots_UnlinkFirst ==
    /\ pc = "resolve"
    /\ \E roots \in getDriveRoots(sanitizeDriveList(IGNORED_DRIVES), CUSTOM_PLACES,
                                  sanitizeDriveList(WHITELISTED_DRIVES)) :
          /\ driveRoots' = roots
          /\ IF Len(roots) = 0
             THEN out' = out \o <<Msg("There are no drives set to be indexed")>> /\ Exit(1)
             ELSE pc' = "setup" /\ UNCHANGED <<out, exitCode, conn>>
    /\ dbFile' = NoFile
    /\ UNCHANGED <<argv, IGNORED_DRIVES, WHITELISTED_DRIVES, CUSTOM_PLACES,
                   logicalDrives, faults, thrList, folderSizes, totalSize,
                   findCalls>>

ResolveRoots ==
    /\ pc = "resolve"
    /\ \E roots \in getDriveRoots(sanitizeDriveList(IGNORED_DRIVES), CUSTOM_PLACES,
                                  sanitizeDriveList(WHITELISTED_DRIVES)) :
          /\ driveRoots' = roots
          /\ IF Len(roots) = 0
             THEN out' = out \o <<Msg("There are no drives set to be indexed")>> /\ Exit(1)
             ELSE pc' = "setup" /\ UNCHANGED <<out, exitCode, conn>>
    /\ UNCHANGED <<argv, IGNORED_DRIVES, WHITELISTED_DRIVES, CUSTOM_PLACES,
                   logicalDrives, faults, dbFile, thrList, folderSizes, totalSize,
                   findCalls>>

\* 218-226: what is on disk once the old file is unlinked, the new one
\* connected to, and the tables created and committed
StoreAfterSetup_KeepOldFile(old) == IF old = NoFile THEN EmptyTables ELSE old

StoreAfterSetup(old) == EmptyTables

SetUpStore ==
    /\ pc = "setup"
    /\ out' = IF dbFile = NoFile THEN out
              ELSE out \o <<Msg("Deleting old SQLite DB file")>>
    /\ dbFile' = StoreAfterSetup(dbFile)
    /\ conn' = EmptyTables
    /\ pc' = IF argv.singleThreaded THEN "sequential" ELSE "start"
    /\ UNCHANGED <<argv, IGNORED_DRIVES, WHITELISTED_DRIVES, CUSTOM_PLACES,
                   logicalDrives, faults, driveRoots, thrList, folderSizes,
                   totalSize, exitCode, findCalls>>

\* 228-236: one thread per root, all started
StartThreads ==
    /\ pc = "start"
    /\ thrList' = [i \in 1..Len(driveRoots) |->
                      [drive |-> driveRoots[i],
                       alive |-> TRUE,
                       todo  |-> scantree(driveRoots[i])]]
    /\ pc' = "poll"
    /\ UNCHANGED <<argv, IGNORED_DRIVES, WHITELISTED_DRIVES, CUSTOM_PLACES,
                   logicalDrives, faults, dbFile, conn, driveRoots, folderSizes,
                   totalSize, out, exitCode, findCalls>>

\* A worker thread handles the next entry scantree yields (313-331). Every
\* thread inserts through the one connection it was handed.
WorkerStep(i) ==
    /\ exitCode = Running
    /\ thrList[i].alive
    /\ thrList[i].todo # <<>>
    /\ LET row == FileRow(Head(thrList[i].todo))
       IN  conn' = IF row = Skip THEN conn
                   ELSE [conn EXCEPT !.files = Append(@, row)]
    /\ thrList' = [thrList EXCEPT ![i].todo = Tail(@)]
    /\ UNCHANGED <<argv, IGNORED_DRIVES, WHITELISTED_DRIVES, CUSTOM_PLACES,
                   logicalDrives, faults, dbFile, pc, driveRoots, folderSizes,
                   totalSize, out, exitCode, findCalls>>

\* The worker's scan is over (333): the thread ends
WorkerExit(i) ==
    /\ exitCode = Running
    /\ thrList[i].alive
    /\ thrList[i].todo = <<>>
    /\ thrList' = [thrList EXCEPT ![i].alive = FALSE]
    /\ UNCHANGED <<argv, IGNORED_DRIVES, WHITELISTED_DRIVES, CUSTOM_PLACES,
                   logicalDrives, faults, dbFile, conn, pc, driveRoots,
                   folderSizes, totalSize, out, exitCode, findCalls>>

\* every thread is still alive
AnyAlive_AllAlive == \A i \in 1..Len(thrList) : thrList[i].alive

\* 246-247: True in xthl
AnyAlive == \E i \in 1..Len(thrList) : thrList[i].alive

\* 240-252: one turn of the liveness poll, up to the sleep
Poll ==
    /\ pc = "poll"
    /\ IF AnyAlive
       THEN pc' = "sleep" /\ UNCHANGED out
       ELSE pc' = "commit" /\ out' = out \o <<Msg("Finished indexing")>>
    /\ UNCHANGED <<argv, IGNORED_DRIVES, WHITELISTED_DRIVES, CUSTOM_PLACES,
                   logicalDrives, faults, dbFile, conn, driveRoots, thrList,
                   folderSizes, totalSize, exitCode, findCalls>>

\* 252: time.sleep(0.300) returns
Wake ==
    /\ pc = "sleep"
    /\ pc' = "poll"
    /\ UNCHANGED <<argv, IGNORED_DRIVES, WHITELISTED_DRIVES, CUSTOM_PLACES,
                   logicalDrives, faults, dbFile, conn, driveRoots, thrList,
                   folderSizes, totalSize, out, exitCode, findCalls>>

\* 253-254: KeyboardInterrupt in the sleep, exit(1). The interpreter then
\* joins the threads that are not daemons before the process ends.
Interrupt ==
    /\ pc = "sleep"
    /\ pc' = "shutdown"
    /\ UNCHANGED <<argv, IGNORED_DRIVES, WHITELISTED_DRIVES, CUSTOM_PLACES,
                   logicalDrives, faults, dbFile, conn, driveRoots, thrList,
                   folderSizes, totalSize, out, exitCode, findCalls>>

\* The interpreter's shutdown, once every worker thread has ended
Shutdown ==
    /\ pc = "shutdown"
    /\ ~AnyAlive
    /\ Exit(1)
    /\ UNCHANGED <<argv, IGNORED_DRIVES, WHITELISTED_DRIVES, CUSTOM_PLACES,
                   logicalDrives, faults, dbFile, driveRoots, thrList,
                   folderSizes, totalSize, out, findCalls>>

\* 257-261: the roots one after the other, in this thread
RECURSIVE RowsOfDrives(_)
RowsOfDrives(roots) ==
    IF roots = <<>> THEN <<>>
    ELSE indexSingleDrive(Head(roots)) \o RowsOfDrives(Tail(roots))

IndexSequential ==
    /\ pc = "sequential"
    /\ conn' = [conn EXCEPT !.files = @ \o RowsOfDrives(driveRoots)]
    /\ pc' = "commit"
    /\ UNCHANGED <<argv, IGNORED_DRIVES, WHITELISTED_DRIVES, CUSTOM_PLACES,
                   logicalDrives, faults, dbFile, driveRoots, thrList,
                   folderSizes, totalSize, out, exitCode, findCalls>>

\* 262: db.commit()
CommitFiles ==
    /\ pc = "commit"
    /\ dbFile' = Committed
    /\ conn' = EmptyTables
    /\ pc' = "calc"
    /\ UNCHANGED <<argv, IGNORED_DRIVES, WHITELISTED_DRIVES, CUSTOM_PLACES,
                   logicalDrives, faults, driveRoots, thrList, folderSizes,
                   totalSize, out, exitCode, findCalls>>

\* 267-288: the files rows read back and summed per folder
CalcSizes ==
    /\ pc = "calc"
    /\ LET r == ReadBack(Visible("files"), <<>>, 0)
       IN  IF r.failed # <<>>
           THEN /\ out' = out \o <<[k |-> "Failed to access the path", v |-> r.failed]>>
                /\ Exit(1)
                /\ UNCHANGED <<folderSizes, totalSize>>
           ELSE /\ folderSizes' = r.folderSizes
                /\ totalSize' = r.totalSize
                /\ pc' = "add"
                /\ UNCHANGED <<out, exitCode, conn>>
    /\ UNCHANGED <<argv, IGNORED_DRIVES, WHITELISTED_DRIVES, CUSTOM_PLACES,
                   logicalDrives, faults, dbFile, driveRoots, thrList, findCalls>>

\* The folders rows committed one by one as they are inserted
AddSizes_CommitsEachFolder ==
    /\ pc = "add"
    /\ IF \E i \in 1..Len(folderSizes) : Raises("folder", PathStr(folderSizes[i].folder))
       THEN /\ out' = out \o <<Msg("Traceback")>>
            /\ Exit(1)
            /\ UNCHANGED dbFile
       ELSE /\ dbFile' = [dbFile EXCEPT
                          !.folders = @ \o [i \in 1..Len(folderSizes) |->
                                FolderRow(folderSizes[i].folder, folderSizes[i].size)]]
            /\ conn' = [conn EXCEPT
                          !.info = Append(@, [gen   |-> ThisGen,
                                              var   |-> "totalSize",
                                              value |-> DecimalText(totalSize)])]
            /\ pc' = "finish"
            /\ UNCHANGED <<out, exitCode>>
    /\ UNCHANGED <<argv, IGNORED_DRIVES, WHITELISTED_DRIVES, CUSTOM_PLACES,
                   logicalDrives, faults, driveRoots, thrList,
                   folderSizes, totalSize, findCalls>>

\* 290-304: a folders row per folder, then the totalSize entry. Path(folder),
\* resolve() and the two stat calls are outside any try.
AddSizes ==
    /\ pc = "add"
    /\ IF \E i \in 1..Len(folderSizes) : Raises("folder", PathStr(folderSizes[i].folder))
       THEN /\ out' = out \o <<Msg("Traceback")>>
            /\ Exit(1)
       ELSE /\ conn' = [conn EXCEPT
                          !.folders = @ \o [i \in 1..Len(folderSizes) |->
                                FolderRow(folderSizes[i].folder, folderSizes[i].size)],
                          !.info = Append(@, [gen   |-> ThisGen,
                                              var   |-> "totalSize",
                                              value |-> DecimalText(totalSize)])]
            /\ pc' = "finish"
            /\ UNCHANGED <<out, exitCode>>
    /\ UNCHANGED <<argv, IGNORED_DRIVES, WHITELISTED_DRIVES, CUSTOM_PLACES,
                   logicalDrives, faults, dbFile, driveRoots, thrList,
                   folderSizes, totalSize, findCalls>>

\* 305-308 and 529: the last commit, and the process ends with status 0
Finish ==
    /\ pc = "finish"
    /\ dbFile' = Committed
    /\ out' = out \o <<Msg("Done.")>>
    /\ Exit(0)
    /\ UNCHANGED <<argv, IGNORED_DRIVES, WHITELISTED_DRIVES, CUSTOM_PLACES,
                   logicalDrives, faults, driveRoots, thrList, folderSizes,
                   totalSize, findCalls>>

-----------------------------------------------------------------------------
(* The runs that are checked *)

\* How many OS errors one run meets at most
MaxFaults == 1

\* How many custom locations a configuration lists at most
MaxCustom == 2

RECURSIVE SubsetsUpTo(_, _)
SubsetsUpTo(S, n) ==
    IF n = 0 THEN {{}}
    ELSE LET smaller == SubsetsUpTo(S, n - 1)
         IN  smaller \cup {f \cup {x} : f \in smaller, x \in S}

\* The entries a scan of D: or of the network share can meet
Scanned == {n \in Nodes : StartsWith(n.path, D_) \/ StartsWith(n.path, NetShare)}

\* Where an OS error can be raised: listing a directory, the is-directory
\* test, the Path constructor in scantree, resolve/stat in indexSingleDrive,
\* the Path constructor of the read-back (errno 22, or another errno), and
\* Path/resolve/stat on a folder.
FaultPoints ==
    {<<"scandir", d>> : d \in {D_, NetShare \o <<Sep>>}
                              \cup {n.path : n \in {m \in Scanned : m.kind = "dir"}}}
    \cup {<<"is_dir", n.path>> : n \in Scanned}
    \cup {<<op, n.path>> : op \in {"Path", "stat"},
                           n \in {m \in Scanned : m.kind # "dir"}}
    \cup {<<op, n.path>> : op \in {"Path_EINVAL", "Path_other"},
                           n \in {m \in Scanned : m.kind = "file"}}
    \cup {<<"folder", PathStr(Parent(ParsePath(n.path)))>> :
                           n \in {m \in Scanned : m.kind = "file"}}

Argv(form, index, singleThreaded, text, noWildCard, caseSensitive, withUi, type, max, asc) ==
    [form |-> form, index |-> index, singleThreaded |-> singleThreaded,
     text |-> text, noWildCard |-> noWildCard, caseSensitive |-> caseSensitive,
     withUi |-> withUi, type |-> type, max |-> max, asc |-> asc]

\* dfind --index [--single-threaded]
IndexInvocations ==
    {Argv("flags", TRUE, st, <<>>, FALSE, FALSE, FALSE, "folders", 10, FALSE) :
        st \in BOOLEAN}

\* The store a finished run over F: left behind, before F: was unplugged:
\* what the run writes for F:\foo.txt (7 bytes), F:\x\foo (0) and F:\x\Fob (7)
OldStore ==
    [files   |-> << [gen |-> OldGen, drive |-> <<>>,
                     fullpath |-> F_ \o <<"f","o","o",".","t","x","t">>,
                     name |-> <<"f","o","o",".","t","x","t">>, size |-> 7],
                    [gen |-> OldGen, drive |-> <<>>,
                     fullpath |-> F_ \o <<"x", Sep, "f","o","o">>,
                     name |-> <<"f","o","o">>, size |-> 0],
                    [gen |-> OldGen, drive |-> <<>>,
                     fullpath |-> F_ \o <<"x", Sep, "F","o","b">>,
                     name |-> <<"F","o","b">>, size |-> 7] >>,
     folders |-> << [gen |-> OldGen, fullpath |-> F_, name |-> F_, size |-> 7],
                    [gen |-> OldGen, fullpath |-> F_ \o <<"x">>,
                     name |-> <<"x">>, size |-> 7] >>,
     info    |-> << [gen |-> OldGen, var |-> "totalSize", value |-> <<"1","4">>] >>]

\* The same store, computed as the run computes it
StoreOfRunOverF ==
    LET new   == indexSingleDrive(<<"F", ":">>)
        files == [i \in 1..Len(new) |-> [new[i] EXCEPT !.gen = OldGen]]
        r     == ReadBack(files, <<>>, 0)
    IN  [files   |-> files,
         folders |-> [i \in 1..Len(r.folderSizes) |->
                        [FolderRow(r.folderSizes[i].folder, r.folderSizes[i].size)
                            EXCEPT !.gen = OldGen]],
         info    |-> <<[gen |-> OldGen, var |-> "totalSize",
                        value |-> DecimalText(r.totalSize)]>>]

OldStoreIsWhatARunLeaves ==
    (pc = "main" /\ faults = {} /\ CUSTOM_PLACES = <<>> /\ dbFile = NoFile)
        => OldStore = StoreOfRunOverF

InitProcess ==
    /\ conn = Closed
    /\ pc = "main"
    /\ driveRoots = <<>>
    /\ thrList = <<>>
    /\ folderSizes = <<>>
    /\ totalSize = 0
    /\ out = <<>>
    /\ exitCode = Running
    /\ findCalls = <<>>

\* An index command on a machine with the drives C: and D:
Init ==
    /\ argv \in IndexInvocations
    /\ logicalDrives = <<<<"C", ":", Sep>>, <<"D", ":", Sep>>>>
    /\ IGNORED_DRIVES \in {StrVal(<<"C", ":">>), ListVal(<<<<"c", ":">>, <<"d", ":", Sep>>>>)}
    /\ WHITELISTED_DRIVES = ListVal(<<>>)
    /\ CUSTOM_PLACES \in {<<>>, <<NetShare>>}
    /\ faults \in SubsetsUpTo(FaultPoints, MaxFaults)
    /\ dbFile \in {NoFile, OldStore}
    /\ InitProcess

Next ==
    \/ Main
    \/ ResolveRoots
    \/ SetUpStore
    \/ StartThreads
    \/ \E i \in 1..Len(thrList) : WorkerStep(i)
    \/ \E i \in 1..Len(thrList) : WorkerExit(i)
    \/ Poll
    \/ Wake
    \/ Interrupt
    \/ Shutdown
    \/ IndexSequential
    \/ CommitFiles
    \/ CalcSizes
    \/ AddSizes
    \/ Finish

Spec == Init /\ [][Next]_vars

-----------------------------------------------------------------------------
(* Root resolution alone, over every small configuration *)

\* The tuples that list the members of a set, in the order of an enumeration
RECURSIVE Sublists(_)
Sublists(all) ==
    IF all = <<>> THEN {<<>>}
    ELSE LET rest == Sublists(Tail(all))
         IN  rest \cup {<<Head(all)>> \o l : l \in rest}

PlaceInD == D_ \o <<"A">>

InitRoots ==
    /\ argv \in IndexInvocations
    /\ logicalDrives \in Sublists(<<<<"C", ":", Sep>>, <<"D", ":", Sep>>, <<"E", ":", Sep>>>>)
    /\ IGNORED_DRIVES \in {StrVal(<<"C", ":">>)}
          \cup {ListVal(l) : l \in Sublists(<<<<"c", ":">>, <<"D", ":", Sep>>, <<"E", ":">>>>)}
    /\ WHITELISTED_DRIVES \in {StrVal(<<"d", ":">>)}
          \cup {ListVal(l) : l \in Sublists(<<<<"C", ":">>, <<"E", ":", Sep>>>>)}
    /\ CUSTOM_PLACES \in SeqsUpTo({NetShare, PlaceInD}, MaxCustom)
    /\ faults = {}
    /\ dbFile \in {NoFile, OldStore}
    /\ InitProcess

NextRoots ==
    \/ Main
    \/ ResolveRoots

SpecRoots == InitRoots /\ [][NextRoots]_vars

-----------------------------------------------------------------------------
(* The query commands, and find called by itself *)

\* The largest --max-results tried (the parser takes 1..100)
MaxTop == 3

T_FOO == <<"F","O","O">>
T_foo == <<"f","o","o">>
T_FOOstar == <<"F","O","O","*">>
T_foostar == <<"f","o","o","*">>
T_fostar == <<"f","o","*">>
T_f_o == <<"f","_","o">>
T_foq == <<"f","o","?">>
T_starostar == <<"*","o","*">>
T_none == <<"z">>
T_path == F_ \o <<"x", Sep, "f","o","o">>
T_pathstar == <<"f", ":", Sep, "*">>
T_nameTxt == <<"f","o","o",".","t","x","t">>

SearchTexts == {T_FOO, T_foo, T_FOOstar, T_foostar, T_fostar, T_f_o, T_foq,
                T_starostar, T_none, T_path, T_pathstar, T_nameTxt}

\* dfind search [text] [-e] [-c] [-u], dfind top [-t] [-m] [-a],
\* dfind <free text>, and dfind with no argument
QueryInvocations ==
    {Argv("search", FALSE, FALSE, t, e, c, u, "folders", 10, FALSE) :
        t \in {<<>>, T_FOO, T_foostar, T_none}, e \in BOOLEAN, c \in BOOLEAN, u \in BOOLEAN}
    \cup {Argv("top", FALSE, FALSE, <<>>, FALSE, FALSE, FALSE, ty, m, a) :
        ty \in {"files", "folders"}, m \in 1..MaxTop, a \in BOOLEAN}
    \cup {Argv("bare", FALSE, FALSE, t, FALSE, FALSE, FALSE, "folders", 10, FALSE) :
        t \in {T_FOO, T_foostar, T_none}}
    \cup {Argv("flags", FALSE, FALSE, <<>>, FALSE, FALSE, FALSE, "folders", 10, FALSE)}

\* The store of a run that ended during the aggregation: files only
FilesOnlyStore == [OldStore EXCEPT !.folders = <<>>, !.info = <<>>]

InitQuery ==
    /\ argv \in QueryInvocations
    /\ logicalDrives = <<<<"C", ":", Sep>>, <<"D", ":", Sep>>>>
    /\ IGNORED_DRIVES = StrVal(<<"C", ":">>)
    /\ WHITELISTED_DRIVES = ListVal(<<>>)
    /\ CUSTOM_PLACES = <<>>
    /\ faults = {}
    /\ dbFile \in {NoFile, OldStore, FilesOnlyStore}
    /\ InitProcess

SpecQuery == InitQuery /\ [][Main]_vars

\* find(search, noWildcard, case_sensitive), called on an existing store
CallFind ==
    /\ pc = "call find"
    /\ dbFile # NoFile
    /\ findCalls' = <<FindCall(argv.text, argv.noWildCard, argv.caseSensitive)>>
    /\ pc' = "returned"
    /\ UNCHANGED <<argv, IGNORED_DRIVES, WHITELISTED_DRIVES, CUSTOM_PLACES,
                   logicalDrives, faults, dbFile, conn, driveRoots, thrList,
                   folderSizes, totalSize, out, exitCode>>

InitFind ==
    /\ argv \in {Argv("find()", FALSE, FALSE, t, e, c, FALSE, "folders", 10, FALSE) :
                    t \in SearchTexts, e \in BOOLEAN, c \in BOOLEAN}
    /\ logicalDrives = <<<<"C", ":", Sep>>, <<"D", ":", Sep>>>>
    /\ IGNORED_DRIVES = StrVal(<<"C", ":">>)
    /\ WHITELISTED_DRIVES = ListVal(<<>>)
    /\ CUSTOM_PLACES = <<>>
    /\ faults = {}
    /\ dbFile \in {OldStore, FilesOnlyStore, EmptyTables}
    /\ conn = Closed
    /\ pc = "call find"
    /\ driveRoots = <<>>
    /\ thrList = <<>>
    /\ folderSizes = <<>>
    /\ totalSize = 0
    /\ out = <<>>
    /\ exitCode = Running
    /\ findCalls = <<>>

SpecFind == InitFind /\ [][CallFind]_vars

-----------------------------------------------------------------------------
(* The claims *)

RECURSIVE SumSizes(_)
SumSizes(rows) == IF rows = <<>> THEN 0 ELSE Head(rows).size + SumSizes(Tail(rows))

\* An indexing run reached its final commit and the process ended with 0
FinishedRun == argv.index /\ pc = "exited" /\ exitCode = Exited(0)

\* The parent directory of a stored full path, as text
ParentStr(fullpath) == PathStr(Parent(ParsePath(fullpath)))

NoDrivesMsg == Msg("There are no drives set to be indexed")

\* C1: after every finished indexing run the value stored under
\* info.var = 'totalSize' is the sum of size over all rows of the files table,
\* the rows skipped by the read-back pass included.
C1_TotalSizeIsSumOfAllFiles ==
    FinishedRun =>
        /\ \E i \in 1..Len(dbFile.info) : dbFile.info[i].var = "totalSize"
        /\ \A i \in 1..Len(dbFile.info) :
              dbFile.info[i].var = "totalSize"
                  => dbFile.info[i].value = DecimalText(SumSizes(dbFile.files))

\* C2: after every finished indexing run each folders row has the summed size
\* of the files rows whose parent directory is that folder's fullpath, and each
\* parent directory of a files row has exactly one folders row.
C2_FolderSizesAreSumsOfTheirFiles ==
    FinishedRun =>
        /\ \A i \in 1..Len(dbFile.folders) :
              dbFile.folders[i].size =
                  SumSizes(SelectSeq(dbFile.files,
                      LAMBDA row : ParentStr(row.fullpath) = dbFile.folders[i].fullpath))
        /\ \A j \in 1..Len(dbFile.files) :
              Cardinality({i \in 1..Len(dbFile.folders) :
                  dbFile.folders[i].fullpath = ParentStr(dbFile.files[j].fullpath)}) = 1

\* C2 holds in every run whose read-back meets no errno 22: it fails through
\* the rows that the read-back of C1 leaves out, and through nothing else.
FolderSizesWhenNothingIsLeftOut ==
    (\A f \in faults : f[1] # "Path_EINVAL") => C2_FolderSizesAreSumsOfTheirFiles

OldRowsIn(store) ==
    store # NoFile /\ store # Closed
    /\ \E t \in {"files", "folders", "info"} :
          \E i \in 1..Len(store[t]) : store[t][i].gen = OldGen

NewRowsIn(store) ==
    store # NoFile /\ store # Closed
    /\ \E t \in {"files", "folders", "info"} :
          \E i \in 1..Len(store[t]) : store[t][i].gen = ThisGen

\* C3: from the moment the new run has inserted its first row, and so when it
\* has completed, no row of the earlier run is left in files, folders or info.
C3_NoRowOfTheEarlierRunSurvives ==
    (FinishedRun \/ NewRowsIn(conn) \/ NewRowsIn(dbFile)) => ~OldRowsIn(dbFile)

C3_Witness ==
    /\ FinishedRun
    /\ Msg("Deleting old SQLite DB file") \in Range(out)
    /\ Len(dbFile.files) >= 2
    /\ dbFile.folders # <<>>
    /\ dbFile.info # <<>>

\* The walk in which an OS error costs only the entry or the subtree it was
\* raised for
RECURSIVE WalkSkippingOnlyTheFaulty(_)
RECURSIVE EntriesSkippingOnlyTheFaulty(_)
EntriesSkippingOnlyTheFaulty(es) ==
    IF es = <<>> THEN <<>>
    ELSE LET entry == Head(es)
             rest  == EntriesSkippingOnlyTheFaulty(Tail(es))
         IN  IF Raises("is_dir", entry.path) THEN rest
             ELSE IF entry.node.kind = "dir"
                  THEN WalkSkippingOnlyTheFaulty(entry.path) \o rest
             ELSE IF Raises("Path", entry.path) THEN rest
             ELSE <<entry.path>> \o rest

WalkSkippingOnlyTheFaulty(path) ==
    IF Raises("scandir", path) THEN <<>>
    ELSE EntriesSkippingOnlyTheFaulty(ScanDir(path))

TraversalFaultsOnly ==
    \A f \in faults : f[1] \in {"scandir", "is_dir", "Path", "stat"}

\* exit(1) out of the sleep: the only end of a threaded run with status 1
\* that comes before "Finished indexing" is printed
WasInterrupted ==
    /\ pc = "exited"
    /\ exitCode = Exited(1)
    /\ thrList # <<>>
    /\ Msg("Finished indexing") \notin Range(out)

\* C4: when the OS errors of a run are raised by the traversal or the record
\* building, only the subtree or entry they were raised for is skipped: every
\* other file, the later entries of the same directory included, is indexed,
\* and the run ends as Done.
C4_OnlyTheFaultyEntryIsSkipped ==
    (/\ argv.index
     /\ pc = "exited"
     /\ driveRoots # <<>>
     /\ TraversalFaultsOnly
     /\ ~WasInterrupted)
    => /\ exitCode = Exited(0)
       /\ \A d \in 1..Len(driveRoots) :
            LET walk == WalkSkippingOnlyTheFaulty(driveRoots[d])
            IN  \A e \in 1..Len(walk) :
                    FileRow(walk[e]) # Skip
                        => \E i \in 1..Len(dbFile.files) : dbFile.files[i] = FileRow(walk[e])

\* The name of a drive as the configuration and the OS spell it: two
\* characters, letter case aside
DriveName(s) == Slice0(Upper(s), 2)
ConfigList(v) == IF v.isStr THEN <<v.val>> ELSE v.val
DriveNames(lst) == {DriveName(lst[i]) : i \in 1..Len(lst)}

ExpectedDrives ==
    LET kept == DriveNames(logicalDrives) \ DriveNames(ConfigList(IGNORED_DRIVES))
    IN  IF ConfigList(WHITELISTED_DRIVES) = <<>>
        THEN kept
        ELSE kept \cap DriveNames(ConfigList(WHITELISTED_DRIVES))

IsRearrangement(a, b) ==
    /\ Len(a) = Len(b)
    /\ \E q \in [1..Len(a) -> 1..Len(a)] :
          /\ \A i, j \in 1..Len(a) : i # j => q[i] # q[j]
          /\ \A i \in 1..Len(a) : a[i] = b[q[i]]

RootsResolved == argv.index /\ pc \notin {"main", "resolve"}

C6_NoRootsLeavesTheStoreAlone ==
    [][/\ (pc \in {"main", "resolve"} /\ pc' \in {"resolve", "exited"})
            => dbFile' = dbFile
       /\ (pc = "resolve" /\ pc' # "resolve" /\ driveRoots' = <<>>)
            => /\ pc' = "exited"
               /\ exitCode' = Exited(1)
               /\ NoDrivesMsg \in Range(out')]_vars

C6_Witness ==
    /\ argv.index
    /\ pc = "exited"
    /\ driveRoots = <<>>
    /\ NoDrivesMsg \in Range(out)
    /\ exitCode = Exited(1)
    /\ dbFile = OldStore

\* C7: a search command, a top command or the bare free-text command given
\* while there is no store file does not try the query, tells the user to
\* build the index first, and ends with a status other than 0.
C7_NoStoreMeansNoQuery ==
    (/\ pc = "exited"
     /\ ~argv.index
     /\ argv.form \in {"search", "top", "bare"}
     /\ dbFile = NoFile)
    => /\ findCalls = <<>>
       /\ Msg("No index DB found") \in Range(out)
       /\ exitCode # Exited(0)

\* C8: "search <text>" with any of its flags, given while there is a store,
\* calls find with that text and those flags; without --with-ui it prints the
\* full path of each row found, one per line, and ends with a status other
\* than 0 when none was found.
C8_SearchRunsTheQuery ==
    (/\ pc = "exited"
     /\ ~argv.index
     /\ argv.form = "search"
     /\ argv.text # <<>>
     /\ dbFile # NoFile)
    => /\ findCalls = <<FindCall(argv.text, argv.noWildCard, argv.caseSensitive)>>
       /\ ~argv.withUi =>
            LET r == find(argv.text, argv.noWildCard, argv.caseSensitive)
            IN  /\ SelectSeq(out, LAMBDA l : l.k = "path") = PathLines(r.List)
                /\ (r.Count = 0) => exitCode # Exited(0)

\* What the one call of find returned
Returned == findCalls[1].returned[1].List

FooTxt == <<"f","o","o",".","t","x","t">>

ReturnsFooTxt == \E i \in 1..Len(Returned) : Returned[i].name = FooTxt
StoresFooTxt == \E i \in 1..Len(dbFile.files) : dbFile.files[i].name = FooTxt

\* C9 as written: a wildcard-mode search for "FOO" returns the stored file
\* named "foo.txt" without the case-sensitive flag, and not with it.
C9_FOOFindsFooTxt ==
    (pc = "returned" /\ StoresFooTxt /\ argv.text = T_FOO /\ ~argv.noWildCard)
        => (ReturnsFooTxt <=> ~argv.caseSensitive)

\* C9, amended: a wildcard-mode search for "FOO*" returns the stored file
\* named "foo.txt" without the case-sensitive flag, and not with it; a search
\* for "FOO" returns it in neither case.
C9_FOOStarFindsFooTxt ==
    (pc = "returned" /\ StoresFooTxt /\ ~argv.noWildCard)
        => /\ argv.text = T_FOOstar => (ReturnsFooTxt <=> ~argv.caseSensitive)
           /\ argv.text = T_FOO => ~ReturnsFooTxt

C9_Witness ==
    /\ pc = "returned"
    /\ argv.text = T_FOOstar
    /\ ~argv.noWildCard
    /\ ~argv.caseSensitive
    /\ ReturnsFooTxt

HasStar(s) == \E i \in 1..Len(s) : s[i] = "*"

IsReturned(row) == \E i \in 1..Len(Returned) : Returned[i] = row

\* C10: a wildcard-mode search for p* returns every row whose name or full
\* path begins with p; an exact-mode search for a text without * returns a
\* row if and only if its name or its full path is that text; the text find
\* matches with is the input with % for every * and every other character as
\* it was.
C10_PrefixAndExactSearch ==
    pc = "returned" =>
        /\ (~argv.noWildCard /\ argv.text[Len(argv.text)] = "*") =>
              LET p == SubSeq(argv.text, 1, Len(argv.text) - 1)
              IN  \A i \in 1..Len(dbFile.files) :
                      (StartsWith(dbFile.files[i].name, p)
                         \/ StartsWith(dbFile.files[i].fullpath, p))
                      => IsReturned(dbFile.files[i])
        /\ (argv.noWildCard /\ ~HasStar(argv.text)) =>
              \A i \in 1..Len(dbFile.files) :
                  IsReturned(dbFile.files[i])
                      <=> (dbFile.files[i].name = argv.text
                             \/ dbFile.files[i].fullpath = argv.text)
        /\ LET used == findCalls[1].returned[1].OriginalSearch
           IN  /\ Len(used) = Len(argv.text)
               /\ \A i \in 1..Len(used) :
                     used[i] = IF argv.text[i] = "*" THEN "%" ELSE argv.text[i]

C10_Witness ==
    /\ pc = "returned"
    /\ argv.text = T_foostar
    /\ ~argv.noWildCard
    /\ argv.caseSensitive
    /\ Len(Returned) = 2
    /\ ReturnsFooTxt

\* The rows top printed, in the order it printed them
TopPrinted == SelectSeq(out, LAMBDA l : l.k = "top")

\* The size column of the row of this table with this full path
SizeOfPath(table, path) ==
    LET i == CHOOSE j \in 1..Len(dbFile[table]) : dbFile[table][j].fullpath = path
    IN  dbFile[table][i].size

TopHasRun == pc = "exited" /\ ~argv.index /\ argv.form = "top" /\ dbFile # NoFile

TopPrintsMinRowsInOrder ==
    LET n == Len(dbFile[argv.type])
        k == IF argv.max < n THEN argv.max ELSE n
    IN  /\ Len(TopPrinted) = k
        /\ \A i \in 1..(Len(TopPrinted) - 1) :
              LET a == SizeOfPath(argv.type, TopPrinted[i].path)
                  b == SizeOfPath(argv.type, TopPrinted[i + 1].path)
              IN  IF argv.asc THEN a <= b ELSE a >= b

\* C11: for a store whose sizes are non-negative (0 included), either table,
\* every N and either direction, top prints exactly min(N, number of rows of
\* the table) rows, ordered by size in the direction asked for.
C11_TopPrintsMinRowsInOrder == TopHasRun => TopPrintsMinRowsInOrder

\* C11 holds whenever no row that top has to print has size 0
TopRowsWhenNoSizeIsZero ==
    (TopHasRun /\ Msg("Traceback") \notin Range(out)) => TopPrintsMinRowsInOrder

\* The committed rows of a table; none while there is no store file
Stored(table) == IF dbFile = NoFile THEN <<>> ELSE dbFile[table]

\* A files row of this run whose path the read-back cannot rebuild
UnreadableRows(ops) ==
    {i \in 1..Len(Stored("files")) :
        /\ dbFile.files[i].gen = ThisGen
        /\ \E op \in ops : Raises(op, dbFile.files[i].fullpath)}

ReadBackAborted(ops) ==
    /\ exitCode # Exited(0)
    /\ \E i \in UnreadableRows(ops) :
          [k |-> "Failed to access the path", v |-> dbFile.files[i].fullpath] \in Range(out)
    /\ Stored("folders") = <<>>
    /\ Stored("info") = <<>>

\* C12: when the read-back meets a recorded path that raises an OS error,
\* errno 22 included, the run reports that path and ends with a status other
\* than 0, and writes neither folders rows nor totalSize.
C12_ReadBackErrorAbortsTheRun ==
    (argv.index /\ pc = "exited" /\ UnreadableRows({"Path_EINVAL", "Path_other"}) # {})
        => ReadBackAborted({"Path_EINVAL", "Path_other"})

\* C12 holds for the OS errors whose errno is not 22
ReadBackAbortsOnOtherErrno ==
    (argv.index /\ pc = "exited" /\ UnreadableRows({"Path_other"}) # {})
        => ReadBackAborted({"Path_other"})

ReadBackAbortsOnOtherErrno_Witness ==
    /\ argv.index /\ pc = "exited" /\ UnreadableRows({"Path_other"}) # {}
    /\ Len(Stored("files")) >= 2

\* The interrupt and what follows it change nothing on disk, and the process
\* ends with status 1
InterruptKeepsTheStore ==
    [][/\ (pc \in {"sleep", "shutdown"} /\ pc' \in {"shutdown", "exited"})
            => dbFile' = dbFile
       /\ (pc = "shutdown" /\ pc' = "exited") => exitCode' = Exited(1)]_vars

\* C13: once the interrupt has been delivered to the waiting coordinator, the
\* process ends without any worker scanning on (no worker handles a further
\* entry or runs to its end first), and the store keeps exactly the rows
\* committed before the interrupt.
C13_InterruptEndsTheProcessAtOnce ==
    [][/\ pc = "shutdown" => thrList' = thrList
       /\ (pc \in {"sleep", "shutdown"} /\ pc' \in {"shutdown", "exited"})
            => dbFile' = dbFile
       /\ (pc = "shutdown" /\ pc' = "exited") => exitCode' = Exited(1)]_vars

\* An interrupted run that has ended: its workers had entries left to scan
\* when the interrupt came, and the store holds the empty tables
InterruptKeepsTheStore_Witness ==
    /\ WasInterrupted
    /\ dbFile = EmptyTables
    /\ Len(thrList) >= 2

\* The read-back SELECT (267) has been issued, or is the next statement
AggregationBegun ==
    \/ pc \in {"calc", "add", "finish"}
    \/ pc = "exited" /\ Msg("Finished indexing") \in Range(out)

\* C14: in a threaded run, from the start of the aggregation on, every worker
\* has ended with nothing left to scan, and no files row is pending: all the
\* rows the workers inserted are committed.
C14_AggregationStartsAfterTheWorkers ==
    (argv.index /\ ~argv.singleThreaded /\ AggregationBegun)
        => /\ thrList # <<>>
           /\ \A i \in 1..Len(thrList) : ~thrList[i].alive /\ thrList[i].todo = <<>>
           /\ conn # Closed => conn.files = <<>>

C14_Witness ==
    /\ argv.index /\ ~argv.singleThreaded
    /\ pc = "calc"
    /\ Len(thrList) = 2
    /\ Len(dbFile.files) >= 4

\* The worker that inserted this row: the one whose root the path lies under
WorkerOf(row) ==
    CHOOSE i \in 1..Len(thrList) : StartsWith(row.fullpath, thrList[i].drive)

\* C15: in a threaded run the rows pending in one connection's transaction
\* were all inserted by one worker, so that a commit or a rollback of one
\* worker's rows never takes another worker's rows with it.
C15_EachWorkerHasItsOwnHandle ==
    (argv.index /\ ~argv.singleThreaded /\ thrList # <<>> /\ conn # Closed)
        => \A a, b \in 1..Len(conn.files) :
              WorkerOf(conn.files[a]) = WorkerOf(conn.files[b])

\* A following find for the same text, without the case-sensitive flag
CallFindAgain ==
    /\ pc = "returned"
    /\ findCalls' = Append(findCalls, FindCall(argv.text, argv.noWildCard, FALSE))
    /\ pc' = "returned again"
    /\ UNCHANGED <<argv, IGNORED_DRIVES, WHITELISTED_DRIVES, CUSTOM_PLACES,
                   logicalDrives, faults, dbFile, conn, driveRoots, thrList,
                   folderSizes, totalSize, out, exitCode>>

NextFindTwice ==
    \/ CallFind
    \/ CallFindAgain

SpecFindTwice == InitFind /\ [][NextFindTwice]_vars

\* The text is the row's name or full path, letter case aside
SameTextIgnoringCase(row, text) ==
    Upper(row.name) = Upper(text) \/ Upper(row.fullpath) = Upper(text)

ReturnedBy(call, row) ==
    \E i \in 1..Len(call.returned[1].List) : call.returned[1].List[i] = row

\* C16: without the case-sensitive flag a search, exact or wildcard, returns
\* every row whose name or full path is the text but for letter case; and a
\* search that follows a case-sensitive one, without the flag, does too.
C16_CaseIsIgnoredWithoutTheFlag ==
    /\ (pc \in {"returned", "returned again"} /\ ~argv.caseSensitive)
          => \A i \in 1..Len(dbFile.files) :
                SameTextIgnoringCase(dbFile.files[i], argv.text)
                    => ReturnedBy(findCalls[1], dbFile.files[i])
    /\ (pc = "returned again" /\ argv.caseSensitive)
          => \A i \in 1..Len(dbFile.files) :
                SameTextIgnoringCase(dbFile.files[i], argv.text)
                    => ReturnedBy(findCalls[2], dbFile.files[i])

\* C16 holds in wildcard mode
CaseIsIgnoredInWildcardMode == ~argv.noWildCard => C16_CaseIsIgnoredWithoutTheFlag

\* C17: in the store of a finished indexing run no two files rows have the
\* same fullpath.
C17_FullPathsAreUnique ==
    FinishedRun =>
        \A i, j \in 1..Len(dbFile.files) :
            i # j => dbFile.files[i].fullpath # dbFile.files[j].fullpath

\* The committed rows of a table that this run wrote
NewStored(table) == SelectSeq(Stored(table), LAMBDA row : row.gen = ThisGen)

\* The run ended in the read-back (274-279) or while adding the sizes (290-304)
AbortedInAggregation ==
    /\ argv.index
    /\ pc = "exited"
    /\ \E l \in Range(out) : l.k = "Failed to access the path" \/ l = Msg("Traceback")

\* C18: on disk, the folders rows of a run and its totalSize entry are there
\* together or not at all: either none of them is committed, or the run has
\* ended as Done and all of them are, a folders row for every folder summed
\* and the one totalSize entry; a run that ends inside the aggregation leaves
\* its files rows committed, no folders row and no totalSize entry.
C18_FoldersAndTotalSizeInOneCommit ==
    /\ \/ NewStored("folders") = <<>> /\ NewStored("info") = <<>>
       \/ /\ FinishedRun
          /\ NewStored("folders") =
                [i \in 1..Len(folderSizes) |->
                    FolderRow(folderSizes[i].folder, folderSizes[i].size)]
          /\ NewStored("info") =
                <<[gen |-> ThisGen, var |-> "totalSize", value |-> DecimalText(totalSize)]>>
    /\ (folderSizes # <<>> /\ dbFile # NoFile)
          => (NewStored("folders") # <<>> <=> NewStored("info") # <<>>)
    /\ AbortedInAggregation
          => /\ NewStored("folders") = <<>>
             /\ NewStored("info") = <<>>
             /\ NewStored("files") = Stored("files")
             /\ \A d \in 1..Len(driveRoots) :
                   \A r \in Range(indexSingleDrive(driveRoots[d])) :
                       r \in Range(Stored("files"))

C18_Witness ==
    /\ AbortedInAggregation
    /\ Msg("Traceback") \in Range(out)
    /\ folderSizes # <<>>
    /\ Len(Stored("files")) >= 2
    /\ Stored("folders") = <<>>
    /\ Stored("info") = <<>>

=============================================================================
